---- MODULE Spec2Model ----
(***************************************************************************)
(* aws9man: one run of the AWS Health report tool (src/src/main.rs).       *)
(*                                                                         *)
(* The run is a single thread of control.  Every remote call is modelled   *)
(* as two steps (the request is issued, the response is received), the     *)
(* remote service answers nondeterministically (success with some content, *)
(* or failure), and the console, the diagnostic output, the csv writer's   *)
(* buffer and the file on disk are the observable outputs.                 *)
(*                                                                         *)
(* Text is a TLA+ string; a command-line date argument is a tuple of       *)
(* one-character strings so that the parser can scan it.  Instants of the  *)
(* window are whole epoch seconds; an event's start time is a pair         *)
(* (days since the epoch, second of the day) so that instants outside the  *)
(* years 1..9999 can be written down.                                      *)
(***************************************************************************)
EXTENDS Integers, Sequences, FiniteSets, TLC

(***************************************************************************)
(* Bounds of the model.                                                    *)
(***************************************************************************)
MaxEvents == 2
MaxEntities == 2
MaxDetails == 2

\* Option<T>: None, or Some(v) holding the value v.
None == <<>>

Some(v) == <<v>>

Val(o) == o[1]

Opt(S) == {None} \cup {Some(v) : v \in S}

SeqsUpTo(S, n) == UNION {[1..k -> S] : k \in 0..n}

Last(s) == s[Len(s)]

(***************************************************************************)
(* Calendar arithmetic (proleptic Gregorian), as chrono and the SDK's      *)
(* formatter compute it.                                                   *)
(***************************************************************************)
IsLeap(y) == (y % 4 = 0 /\ y % 100 # 0) \/ y % 400 = 0

DaysInMonth(y, m) ==
    IF m = 2 THEN (IF IsLeap(y) THEN 29 ELSE 28)
    ELSE IF m \in {4, 6, 9, 11} THEN 30 ELSE 31

DaysFromCivil(y, m, d) ==
    LET yy  == IF m <= 2 THEN y - 1 ELSE y
        era == yy \div 400
        yoe == yy - era * 400
        mp  == IF m > 2 THEN m - 3 ELSE m + 9
        doy == (153 * mp + 2) \div 5 + d - 1
        doe == yoe * 365 + yoe \div 4 - yoe \div 100 + doy
    IN  era * 146097 + doe - 719468

CivilFromDays(z) ==
    LET zz  == z + 719468
        era == zz \div 146097
        doe == zz - era * 146097
        yoe == (doe - doe \div 1460 + doe \div 36524 - doe \div 146096) \div 365
        doy == doe - (365 * yoe + yoe \div 4 - yoe \div 100)
        mp  == (5 * doy + 2) \div 153
        d   == doy - (153 * mp + 2) \div 5 + 1
        m   == IF mp < 10 THEN mp + 3 ELSE mp - 9
        y   == yoe + era * 400 + (IF m <= 2 THEN 1 ELSE 0)
    IN  [year |-> y, month |-> m, day |-> d]

Pad2(n) == IF n < 10 THEN "0" \o ToString(n) ELSE ToString(n)

Pad4(n) ==
    IF n < 10 THEN "000" \o ToString(n)
    ELSE IF n < 100 THEN "00" \o ToString(n)
    ELSE IF n < 1000 THEN "0" \o ToString(n)
    ELSE ToString(n)

ClockText(secs) ==
    Pad2(secs \div 3600) \o ":" \o Pad2((secs % 3600) \div 60) \o ":" \o Pad2(secs % 60)

(***************************************************************************)
(* chrono: DateTime<Utc>::format("%Y-%m-%d %H:%M:%S UTC") of an instant    *)
(* given in epoch seconds.                                                 *)
(***************************************************************************)
FormatUtc(t) ==
    LET c == CivilFromDays(t \div 86400)
    IN  Pad4(c.year) \o "-" \o Pad2(c.month) \o "-" \o Pad2(c.day)
        \o " " \o ClockText(t % 86400) \o " UTC"

(***************************************************************************)
(* chrono: NaiveDate::parse_from_str(date_str, "%Y-%m-%d").  A numeric     *)
(* item takes at least one digit and at most its width (4, 2, 2); a year   *)
(* that carries an explicit sign takes every digit that follows (a year    *)
(* beyond chrono's range, about +-262000, is an error).  Input left over   *)
(* after the day, or a date the calendar does not have, is an error.  The  *)
(* result is [ok, year, month, day].                                       *)
(***************************************************************************)
Digits == <<"0", "1", "2", "3", "4", "5", "6", "7", "8", "9">>

IsDigit(c) == \E i \in 1..10 : Digits[i] = c

DigitValue(c) == (CHOOSE i \in 1..10 : Digits[i] = c) - 1

RECURSIVE CountDigits(_, _, _)
CountDigits(s, pos, max) ==
    IF max = 0 \/ pos > Len(s) \/ ~IsDigit(s[pos]) THEN 0
    ELSE 1 + CountDigits(s, pos + 1, max - 1)

RECURSIVE NumberAt(_, _, _)
NumberAt(s, pos, n) ==
    IF n = 0 THEN 0
    ELSE NumberAt(s, pos, n - 1) * 10 + DigitValue(s[pos + n - 1])

ParseError == [ok |-> FALSE, year |-> 0, month |-> 0, day |-> 0]

NaiveDateParse(s) ==
    LET signed == Len(s) >= 1 /\ s[1] \in {"+", "-"}
        yPos   == IF signed THEN 2 ELSE 1
        yLen   == CountDigits(s, yPos, IF signed THEN Len(s) ELSE 4)
        yAbs   == NumberAt(s, yPos, yLen)
        y      == IF signed /\ s[1] = "-" THEN 0 - yAbs ELSE yAbs
        mPos   == yPos + yLen + 1
        mLen   == CountDigits(s, mPos, 2)
        m      == NumberAt(s, mPos, mLen)
        dPos   == mPos + mLen + 1
        dLen   == CountDigits(s, dPos, 2)
        d      == NumberAt(s, dPos, dLen)
    IN  IF yLen = 0 \/ yLen > 6 \/ yAbs > 262142 THEN ParseError
        ELSE IF mPos - 1 > Len(s) \/ s[mPos - 1] # "-" THEN ParseError
        ELSE IF mLen = 0 THEN ParseError
        ELSE IF dPos - 1 > Len(s) \/ s[dPos - 1] # "-" THEN ParseError
        ELSE IF dLen = 0 THEN ParseError
        ELSE IF dPos + dLen <= Len(s) THEN ParseError
        ELSE IF m < 1 \/ m > 12 \/ d < 1 \/ d > DaysInMonth(y, m) THEN ParseError
        ELSE [ok |-> TRUE, year |-> y, month |-> m, day |-> d]

(***************************************************************************)
(* main, lines 46-54: parse_date_string(date_str, default).  It returns    *)
(* Ok in both arms, so the `?` at the call never returns early: the result *)
(* is the resolved instant and whether the warning was printed.            *)
(***************************************************************************)
\* Mutant: the fallback is taken without the warning.
parse_date_string_silent(date_str, default) ==
    LET p == NaiveDateParse(date_str)
    IN  IF p.ok
        THEN [value |-> DaysFromCivil(p.year, p.month, p.day) * 86400, warned |-> FALSE]
        ELSE [value |-> default, warned |-> FALSE]

parse_date_string(date_str, default) ==
    LET p == NaiveDateParse(date_str)
    IN  IF p.ok
        THEN [value |-> DaysFromCivil(p.year, p.month, p.day) * 86400, warned |-> FALSE]
        ELSE [value |-> default, warned |-> TRUE]

Warning(date_str) == [kind |-> "warning", date |-> date_str]

(***************************************************************************)
(* aws_smithy_types: DateTime::fmt(DateTimeFormat::DateTime), the RFC 3339 *)
(* rendering of an instant.  It is an error for an instant outside the     *)
(* years 1..9999; main.rs unwraps the result (line 214).                   *)
(***************************************************************************)
FmtDateTime(t) ==
    LET c == CivilFromDays(t.days)
    IN  IF c.year < 1 \/ c.year > 9999
        THEN [ok |-> FALSE, text |-> ""]
        ELSE [ok |-> TRUE,
              text |-> Pad4(c.year) \o "-" \o Pad2(c.month) \o "-" \o Pad2(c.day)
                       \o "T" \o ClockText(t.secs) \o "Z"]

(***************************************************************************)
(* The inputs of a run.                                                    *)
(***************************************************************************)
DateArgs ==
    { <<"2", "0", "2", "4", "-", "0", "1", "-", "0", "5">>,
      <<"2", "0", "2", "4", "-", "0", "2", "-", "2", "9">>,
      <<"2", "0", "2", "4", "-", "1", "-", "5">>,
      <<"2", "0", "2", "3", "-", "0", "2", "-", "2", "9">>,
      <<"2", "0", "2", "4", "-", "1", "3", "-", "0", "1">>,
      <<"2", "0", "2", "4", "-", "0", "1", "-", "0", "5", "x">>,
      <<"n", "o", "t", "-", "a", "-", "d", "a", "t", "e">>,
      <<>> }

RegionArgs == {"eu-west-1", "not a region"}

EnvRegions == {"us-west-2"}

\* 2024-11-02 12:30:00 UTC
Nows == {1730550600}

Arns == {"arn:1"}

\* 2024-01-01T01:00:00Z and 10000-01-01T00:00:00Z
StartTimes == {[days |-> 19723, secs |-> 3600], [days |-> 2932897, secs |-> 0]}

ListedEvents == [arn : Opt(Arns), start_time : Opt(StartTimes)]

\* One entry of a describe-event-details successful set: its event
\* description may be absent, and so may the description's latest text.
DetailEntries ==
    { [event_description |-> None],
      [event_description |-> Some([latest_description |-> None])],
      [event_description |-> Some([latest_description |-> Some("Outage")])] }

EntityValues == {"res-1", "res-2"}

AffectedEntities == [entity_value : Opt(EntityValues)]

Header == <<"Timestamp", "ARN", "Detail", "Affected Entities">>

\* What a same-day file of an earlier run holds.
OldFile == <<Header, <<"2023-12-31T00:00:00Z", "arn:old", "Old", "res-0">>>>

\* The answers the service gives to the two per-event calls.
DetailResponses == SeqsUpTo(DetailEntries, MaxDetails)

EntityResponses == SeqsUpTo(AffectedEntities, MaxEntities)

VARIABLES
    args,                    \* Args: from_utc, to_utc, region (None: flag absent)
    envRegion,               \* the default region of the environment, or None
    now,                     \* Utc::now() of line 42
    svcEvents,               \* the events the service lists for the filter
    svcDetails,              \* its successful set for the k-th listed event
    svcEntities,             \* its affected entities for the k-th listed event
    file,                    \* today's csv file on disk: None, or its records
    pc,                      \* position of the run
    exit,                    \* "running", "ok", "error" (main returned Err), "panic"
    start_date, end_date,    \* the resolved window
    target_region,
    stderr, stdout,          \* diagnostic and standard output
    writer,                  \* csv::Writer: None, or the records it buffers
    calls,                   \* every request sent to the health service, in order
    replies,                 \* the outcome of every answered request: "ok" or "error"
    inflight,                \* requests whose response has not arrived
    describe_events_resp,    \* locals of get_health_events
    idx,                     \* position of the loop of line 170
    arn,
    event_details_resp,
    affected_entities_resp,
    entity_list,
    detail,
    timestamp,
    events,                  \* Vec<HealthEvent>
    emitted                  \* records main's loop has consumed

inputs == <<args, envRegion, now, svcEvents, svcDetails, svcEntities>>
outputs == <<file, stderr, stdout, writer>>
window == <<start_date, end_date, target_region>>
remote == <<calls, replies, inflight>>
shaping == <<affected_entities_resp, entity_list, detail, timestamp>>
locals == <<describe_events_resp, idx, arn, event_details_resp, shaping, events, emitted>>
vars == <<inputs, outputs, window, remote, locals, pc, exit>>

InitRun ==
    /\ pc = "parse_from"
    /\ exit = "running"
    /\ start_date = None /\ end_date = None /\ target_region = None
    /\ stderr = <<>> /\ stdout = <<>>
    /\ writer = None
    /\ calls = <<>> /\ replies = <<>> /\ inflight = {}
    /\ describe_events_resp = None
    /\ idx = 0
    /\ arn = None
    /\ event_details_resp = None
    /\ affected_entities_resp = None
    /\ entity_list = None
    /\ detail = None
    /\ timestamp = None
    /\ events = <<>>
    /\ emitted = 0

InitService(maxEvents, details, entities) ==
    \E n \in 0..maxEvents :
        /\ svcEvents \in [1..n -> ListedEvents]
        /\ svcDetails \in [1..n -> details]
        /\ svcEntities \in [1..n -> entities]

ValidDate == <<"2", "0", "2", "4", "-", "0", "1", "-", "0", "5">>

\* Runs over every listing of up to MaxEvents events.
Init ==
    /\ args \in [from_utc : {None}, to_utc : {None, Some(ValidDate)},
                 region : {Some("eu-west-1")}]
    /\ envRegion \in {Some(r) : r \in EnvRegions}
    /\ now \in Nows
    /\ InitService(MaxEvents,
                   {<<>>, <<[event_description |->
                                Some([latest_description |-> Some("Outage")])]>>},
                   {<<>>, <<[entity_value |-> Some("res-1")],
                            [entity_value |-> Some("res-2")]>>})
    /\ file \in {None, Some(OldFile)}
    /\ InitRun

\* Runs over every answer to the per-event calls of a single event.
InitData ==
    /\ args = [from_utc |-> None, to_utc |-> None, region |-> None]
    /\ envRegion \in {Some(r) : r \in EnvRegions}
    /\ now \in Nows
    /\ InitService(1, DetailResponses, EntityResponses)
    /\ file = None
    /\ InitRun

\* Runs over every choice of flags and environment.
InitArgs ==
    /\ args \in [from_utc : Opt(DateArgs), to_utc : Opt(DateArgs), region : Opt(RegionArgs)]
    /\ envRegion \in Opt(EnvRegions)
    /\ now \in Nows
    /\ InitService(1, {<<>>}, {<<[entity_value |-> Some("res-1")]>>})
    /\ file \in {None, Some(OldFile)}
    /\ InitRun

(***************************************************************************)
(* main, lines 41-54: the window.  The defaults are `now` and `now` minus  *)
(* ten days.                                                               *)
(***************************************************************************)
DefaultStart == now - 10 * 86400

ResolveFrom ==
    /\ pc = "parse_from"
    /\ LET r == IF args.from_utc = None
                THEN [value |-> DefaultStart, warned |-> FALSE]
                ELSE parse_date_string(Val(args.from_utc), DefaultStart)
       IN  /\ start_date' = Some(r.value)
           /\ stderr' = IF r.warned THEN Append(stderr, Warning(Val(args.from_utc)))
                                   ELSE stderr
    /\ pc' = "parse_to"
    /\ UNCHANGED <<inputs, file, stdout, writer, end_date, target_region, remote, locals, exit>>

ResolveTo ==
    /\ pc = "parse_to"
    /\ LET r == IF args.to_utc = None
                THEN [value |-> now, warned |-> FALSE]
                ELSE parse_date_string(Val(args.to_utc), now)
       IN  /\ end_date' = Some(r.value)
           /\ stderr' = IF r.warned THEN Append(stderr, Warning(Val(args.to_utc)))
                                   ELSE stderr
    /\ pc' = "region"
    /\ UNCHANGED <<inputs, file, stdout, writer, start_date, target_region, remote, locals, exit>>

(***************************************************************************)
(* main, lines 56-63: the region flag verbatim, else the environment's     *)
(* default; `expect` panics when there is none.                            *)
(***************************************************************************)
\* Mutant: the Health API's own region stands in for a missing default.
ResolveRegionWithFallback ==
    /\ pc = "region"
    /\ IF args.region # None
       THEN target_region' = Some(Val(args.region)) /\ pc' = "banner" /\ exit' = exit
       ELSE IF envRegion # None
       THEN target_region' = Some(Val(envRegion)) /\ pc' = "banner" /\ exit' = exit
       ELSE target_region' = Some("us-east-1") /\ pc' = "banner" /\ exit' = exit
    /\ UNCHANGED <<inputs, outputs, start_date, end_date, remote, locals>>

ResolveRegion ==
    /\ pc = "region"
    /\ IF args.region # None
       THEN target_region' = Some(Val(args.region)) /\ pc' = "banner" /\ exit' = exit
       ELSE IF envRegion # None
       THEN target_region' = Some(Val(envRegion)) /\ pc' = "banner" /\ exit' = exit
       ELSE target_region' = target_region /\ pc' = "done" /\ exit' = "panic"
    /\ UNCHANGED <<inputs, outputs, start_date, end_date, remote, locals>>

\* main, lines 75-80.
Banner ==
    [kind |-> "banner",
     text |-> "Fetching AWS Health events from " \o FormatUtc(Val(start_date))
              \o " to " \o FormatUtc(Val(end_date))
              \o " for region " \o Val(target_region)]

PrintBanner ==
    /\ pc = "banner"
    /\ stdout' = Append(stdout, Banner)
    /\ pc' = "create"
    /\ UNCHANGED <<inputs, file, stderr, writer, window, remote, locals, exit>>

\* main, lines 82-88: File::create truncates or creates; the writer starts empty.
CreateCsv ==
    /\ pc = "create"
    /\ file' = Some(<<>>)
    /\ writer' = Some(<<>>)
    /\ pc' = "header"
    /\ UNCHANGED <<inputs, stderr, stdout, window, remote, locals, exit>>

\* Mutant: the header is forgotten.
WriteNoHeader ==
    /\ pc = "header"
    /\ writer' = writer
    /\ pc' = "list"
    /\ UNCHANGED <<inputs, file, stderr, stdout, window, remote, locals, exit>>

\* main, lines 90-93: the header goes to the writer's buffer.
WriteHeader ==
    /\ pc = "header"
    /\ writer' = Some(Append(Val(writer), Header))
    /\ pc' = "list"
    /\ UNCHANGED <<inputs, file, stderr, stdout, window, remote, locals, exit>>

(***************************************************************************)
(* A `?` on a failed call returns Err from get_health_events and then from *)
(* main (line 96).  A panic unwinds main.  Either way the csv writer is    *)
(* dropped, and its Drop writes the buffered records to the file.          *)
(***************************************************************************)
\* Mutant: the failure is swallowed and the process exits zero.
AbortExitZero(how) ==
    /\ exit' = "ok"
    /\ pc' = "done"
    /\ file' = Some(Val(file) \o Val(writer))
    /\ writer' = None

Abort(how) ==
    /\ exit' = how
    /\ pc' = "done"
    /\ file' = Some(Val(file) \o Val(writer))
    /\ writer' = None

\* get_health_events, lines 148-167.
DescribeEventsRequest ==
    [op |-> "DescribeEvents", regions |-> <<Val(target_region)>>,
     from |-> Val(start_date), to |-> Val(end_date)]

SendDescribeEvents ==
    /\ pc = "list"
    /\ calls' = Append(calls, DescribeEventsRequest)
    /\ inflight' = inflight \cup {DescribeEventsRequest}
    /\ pc' = "list_wait"
    /\ UNCHANGED <<inputs, outputs, window, replies, locals, exit>>

RecvDescribeEvents ==
    /\ pc = "list_wait"
    /\ inflight' = {}
    /\ \/ /\ replies' = Append(replies, "ok")
          /\ describe_events_resp' = Some(svcEvents)
          /\ idx' = 1
          /\ pc' = "loop"
          /\ UNCHANGED <<file, writer, exit>>
       \/ /\ replies' = Append(replies, "error")
          /\ Abort("error")
          /\ UNCHANGED <<describe_events_resp, idx>>
    /\ UNCHANGED <<inputs, stderr, stdout, window, calls, arn, event_details_resp,
                   shaping, events, emitted>>

\* get_health_events, lines 170-178: the loop takes the next event.
\* Mutant: an absent identifier becomes the empty string.
ArnOfOrDefault(event) == IF event.arn = None THEN "" ELSE Val(event.arn)

ArnOf(event) == IF event.arn = None THEN "N/A" ELSE Val(event.arn)

DescribeEventDetailsRequest(key) ==
    [op |-> "DescribeEventDetails", event_arns |-> <<key>>]

SendDescribeEventDetails ==
    /\ pc = "loop"
    /\ idx <= Len(Val(describe_events_resp))
    /\ arn' = Some(ArnOf(Val(describe_events_resp)[idx]))
    /\ calls' = Append(calls, DescribeEventDetailsRequest(Val(arn')))
    /\ inflight' = inflight \cup {DescribeEventDetailsRequest(Val(arn'))}
    /\ pc' = "details_wait"
    /\ UNCHANGED <<inputs, outputs, window, replies, describe_events_resp, idx,
                   event_details_resp, shaping, events, emitted, exit>>

RecvDescribeEventDetails ==
    /\ pc = "details_wait"
    /\ inflight' = {}
    /\ \/ /\ replies' = Append(replies, "ok")
          /\ event_details_resp' = Some(svcDetails[idx])
          /\ pc' = "entities"
          /\ UNCHANGED <<file, writer, exit>>
       \/ /\ replies' = Append(replies, "error")
          /\ Abort("error")
          /\ UNCHANGED event_details_resp
    /\ UNCHANGED <<inputs, stderr, stdout, window, calls, describe_events_resp, idx, arn,
                   shaping, events, emitted>>

\* get_health_events, lines 180-190.
\* Mutant: the second per-event call repeats the first.
DescribeAffectedEntitiesAsDetails(key) ==
    [op |-> "DescribeEventDetails", event_arns |-> <<key>>]

DescribeAffectedEntitiesRequest(key) ==
    [op |-> "DescribeAffectedEntities", event_arns |-> <<key>>]

SendDescribeAffectedEntities ==
    /\ pc = "entities"
    /\ calls' = Append(calls, DescribeAffectedEntitiesRequest(Val(arn)))
    /\ inflight' = inflight \cup {DescribeAffectedEntitiesRequest(Val(arn))}
    /\ pc' = "entities_wait"
    /\ UNCHANGED <<inputs, outputs, window, replies, locals, exit>>

\* Mutant: an entity without a value gets a placeholder.
RECURSIVE EntityListWithPlaceholder(_)
EntityListWithPlaceholder(entities) ==
    IF entities = <<>> THEN <<>>
    ELSE LET rest == EntityListWithPlaceholder(SubSeq(entities, 1, Len(entities) - 1))
             entity == entities[Len(entities)]
         IN  IF entity.entity_value # None
             THEN Append(rest, Val(entity.entity_value))
             ELSE Append(rest, "N/A")

\* lines 192-198: the values that are present, in order.
RECURSIVE EntityList(_)
EntityList(entities) ==
    IF entities = <<>> THEN <<>>
    ELSE LET rest == EntityList(SubSeq(entities, 1, Len(entities) - 1))
             entity == entities[Len(entities)]
         IN  IF entity.entity_value # None
             THEN Append(rest, Val(entity.entity_value))
             ELSE rest

\* Mutant: the first entry that has a description is taken.
RECURSIVE DetailOfFirstDescribed(_)
DetailOfFirstDescribed(details) ==
    IF details = <<>> THEN "No description available"
    ELSE IF /\ details[1].event_description # None
            /\ Val(details[1].event_description).latest_description # None
         THEN Val(Val(details[1].event_description).latest_description)
         ELSE DetailOfFirstDescribed(Tail(details))

\* lines 200-210.
DetailOf(details) ==
    IF details # <<>> /\ details[1].event_description # None
    THEN IF Val(details[1].event_description).latest_description # None
         THEN Val(Val(details[1].event_description).latest_description)
         ELSE "No description available"
    ELSE "No description available"

\* lines 211-217: [ok, text]; not ok is the panic of the unwrap.
TimestampOf(event) ==
    IF event.start_time # None
    THEN FmtDateTime(Val(event.start_time))
    ELSE [ok |-> TRUE, text |-> "Unknown time"]

\* lines 219-224.
HealthEvent(ts, a, d, ents) ==
    [timestamp |-> ts, arn |-> a, detail |-> d, affected_entities |-> ents]

RecvDescribeAffectedEntities ==
    /\ pc = "entities_wait"
    /\ inflight' = {}
    /\ \/ /\ replies' = Append(replies, "ok")
          /\ affected_entities_resp' = Some(svcEntities[idx])
          /\ pc' = "collect"
          /\ UNCHANGED <<file, writer, exit>>
       \/ /\ replies' = Append(replies, "error")
          /\ Abort("error")
          /\ UNCHANGED affected_entities_resp
    /\ UNCHANGED <<inputs, stderr, stdout, window, calls, describe_events_resp, idx, arn,
                   event_details_resp, entity_list, detail, timestamp, events, emitted>>

\* get_health_events, lines 192-198.
CollectEntities ==
    /\ pc = "collect"
    /\ entity_list' = Some(EntityList(Val(affected_entities_resp)))
    /\ pc' = "detail"
    /\ UNCHANGED <<inputs, outputs, window, remote, describe_events_resp, idx, arn,
                   event_details_resp, affected_entities_resp, detail, timestamp,
                   events, emitted, exit>>

\* get_health_events, lines 200-210.
PickDetail ==
    /\ pc = "detail"
    /\ detail' = Some(DetailOf(Val(event_details_resp)))
    /\ pc' = "timestamp"
    /\ UNCHANGED <<inputs, outputs, window, remote, describe_events_resp, idx, arn,
                   event_details_resp, affected_entities_resp, entity_list, timestamp,
                   events, emitted, exit>>

\* get_health_events, lines 211-217.
FormatTimestamp ==
    /\ pc = "timestamp"
    /\ LET ts == TimestampOf(Val(describe_events_resp)[idx])
       IN  IF ts.ok
           THEN /\ timestamp' = Some(ts.text)
                /\ pc' = "push"
                /\ UNCHANGED <<file, writer, exit>>
           ELSE /\ Abort("panic")
                /\ UNCHANGED timestamp
    /\ UNCHANGED <<inputs, stderr, stdout, window, remote, describe_events_resp, idx, arn,
                   event_details_resp, affected_entities_resp, entity_list, detail,
                   events, emitted>>

\* get_health_events, lines 219-225: the record is pushed and the loop body ends.
PushEvent ==
    /\ pc = "push"
    /\ events' = Append(events,
                        HealthEvent(Val(timestamp), Val(arn), Val(detail), Val(entity_list)))
    /\ idx' = idx + 1
    /\ arn' = None
    /\ event_details_resp' = None
    /\ affected_entities_resp' = None
    /\ entity_list' = None
    /\ detail' = None
    /\ timestamp' = None
    /\ pc' = "loop"
    /\ UNCHANGED <<inputs, outputs, window, remote, describe_events_resp, emitted, exit>>

\* get_health_events, line 227, and main, line 96.
ReturnEvents ==
    /\ pc = "loop"
    /\ idx > Len(Val(describe_events_resp))
    /\ pc' = "emit"
    /\ UNCHANGED <<inputs, outputs, window, remote, locals, exit>>

\* main, line 116: [String]::join(", ").
RECURSIVE Join(_, _)
Join(strs, sep) ==
    IF strs = <<>> THEN ""
    ELSE IF Len(strs) = 1 THEN strs[1]
    ELSE strs[1] \o sep \o Join(Tail(strs), sep)

\* main, lines 99-108.
Block(event) ==
    [kind |-> "event",
     lines |-> <<"=====",
                 "Timestamp: " \o event.timestamp,
                 "ARN: " \o event.arn,
                 "Detail: " \o event.detail,
                 "Affected Entities:">>
               \o [k \in 1..Len(event.affected_entities) |->
                       "- " \o event.affected_entities[k]]
               \o <<"">>]

\* main, lines 111-118.
Row(event) ==
    <<event.timestamp, event.arn, event.detail, Join(event.affected_entities, ", ")>>

\* main, lines 98-119: one turn of the loop.
EmitEvent ==
    /\ pc = "emit"
    /\ emitted < Len(events)
    /\ stdout' = Append(stdout, Block(events[emitted + 1]))
    /\ writer' = Some(Append(Val(writer), Row(events[emitted + 1])))
    /\ emitted' = emitted + 1
    /\ UNCHANGED <<inputs, file, stderr, window, remote, describe_events_resp, idx, arn,
                   event_details_resp, shaping, events, pc, exit>>

\* main, lines 121-124.
Finish ==
    /\ pc = "emit"
    /\ emitted = Len(events)
    /\ file' = Some(Val(file) \o Val(writer))
    /\ writer' = None
    /\ stdout' = Append(stdout, [kind |-> "written"])
    /\ pc' = "done"
    /\ exit' = "ok"
    /\ UNCHANGED <<inputs, stderr, window, remote, locals>>

Next ==
    \/ ResolveFrom
    \/ ResolveTo
    \/ ResolveRegion
    \/ PrintBanner
    \/ CreateCsv
    \/ WriteHeader
    \/ SendDescribeEvents
    \/ RecvDescribeEvents
    \/ SendDescribeEventDetails
    \/ RecvDescribeEventDetails
    \/ SendDescribeAffectedEntities
    \/ RecvDescribeAffectedEntities
    \/ CollectEntities
    \/ PickDetail
    \/ FormatTimestamp
    \/ PushEvent
    \/ ReturnEvents
    \/ EmitEvent
    \/ Finish

Spec == Init /\ [][Next]_vars

SpecData == InitData /\ [][Next]_vars

SpecArgs == InitArgs /\ [][Next]_vars

(***************************************************************************)
(* What the claims are stated in: the outputs as a reader sees them, and   *)
(* the record an event is expected to give, written from the service's     *)
(* answers.                                                                *)
(***************************************************************************)
IsEventBlock(item) == item.kind = "event"

EventBlocks == SelectSeq(stdout, IsEventBlock)

NumListed == Len(svcEvents)

AllRepliesOk == \A k \in 1..Len(replies) : replies[k] = "ok"

ExpectedOp(k) ==
    IF k = 1 THEN "DescribeEvents"
    ELSE IF k % 2 = 0 THEN "DescribeEventDetails" ELSE "DescribeAffectedEntities"

ExpectedKey(i) == IF svcEvents[i].arn = None THEN "N/A" ELSE Val(svcEvents[i].arn)

HasText(entry) ==
    /\ entry.event_description # None
    /\ Val(entry.event_description).latest_description # None

ExpectedDetail(successful_set) ==
    IF Len(successful_set) >= 1 /\ HasText(successful_set[1])
    THEN Val(Val(successful_set[1].event_description).latest_description)
    ELSE "No description available"

HasValue(entity) == entity.entity_value # None

PresentValues(entities) ==
    LET present == SelectSeq(entities, HasValue)
    IN  [k \in 1..Len(present) |-> Val(present[k].entity_value)]

\* The values separated by ", ", built from the left.
ExpectedCell(values) ==
    LET upTo[k \in 0..Len(values)] ==
            IF k = 0 THEN ""
            ELSE IF k = 1 THEN values[1]
            ELSE upTo[k - 1] \o ", " \o values[k]
    IN  upTo[Len(values)]

ExpectedTimestamp(i) ==
    IF svcEvents[i].start_time = None
    THEN "Unknown time"
    ELSE FmtDateTime(Val(svcEvents[i].start_time)).text

ExpectedRecord(i) ==
    [timestamp |-> ExpectedTimestamp(i),
     arn |-> ExpectedKey(i),
     detail |-> ExpectedDetail(svcDetails[i]),
     affected_entities |-> PresentValues(svcEntities[i])]

ExpectedRow(i) ==
    <<ExpectedTimestamp(i), ExpectedKey(i), ExpectedDetail(svcDetails[i]),
      ExpectedCell(PresentValues(svcEntities[i]))>>

StartTimeFormats(i) ==
    \/ svcEvents[i].start_time = None
    \/ FmtDateTime(Val(svcEvents[i].start_time)).ok

(***************************************************************************)
(* C1.  A failed remote call (the list call, or either per-event call of   *)
(* any event) is the last call of the run: nothing is in flight and no     *)
(* step follows, the run has ended in error, no event block was printed    *)
(* and the csv holds the header and no data row, even when records of      *)
(* earlier events had been built.                                          *)
(***************************************************************************)
C1_FailedCallAbortsRun ==
    \A k \in 1..Len(replies) :
        replies[k] = "error" =>
            /\ k = Len(replies) /\ k = Len(calls)
            /\ inflight = {}
            /\ pc = "done" /\ exit = "error"
            /\ ~ENABLED Next
            /\ EventBlocks = <<>>
            /\ writer = None
            /\ file = Some(<<Header>>)

\* The second event's describe-affected-entities call fails after the first
\* event's record was built.
C1_Witness ==
    /\ Len(replies) = 5 /\ replies[5] = "error"
    /\ Len(events) = 1
    /\ exit = "error"

(***************************************************************************)
(* C2.  A run in which the list call and every later call succeed ends     *)
(* normally with the header and one row per listed event in the csv and    *)
(* one block per listed event on the console, the i-th of each built from  *)
(* the i-th listed event, repeated arns included.                          *)
(* It fails on the code: a listed event whose start time lies outside the  *)
(* years 1..9999 panics at the unwrap of line 214 (see C6).                *)
(***************************************************************************)
C2_EveryListedEventEmittedOnce ==
    (pc = "done" /\ Len(replies) >= 1 /\ AllRepliesOk) =>
        /\ exit = "ok"
        /\ file = Some(<<Header>> \o [i \in 1..NumListed |-> ExpectedRow(i)])
        /\ EventBlocks = [i \in 1..NumListed |-> Block(ExpectedRecord(i))]

(***************************************************************************)
(* C6.  A listed event that lacks its identifier or its start time, and    *)
(* whose two calls succeed, yields a record once the run is over: its arn  *)
(* is "N/A" when the identifier is absent and its timestamp is             *)
(* "Unknown time" when the start time is absent, else the provider's       *)
(* value.                                                                  *)
(* It fails on the code: for an event without identifier whose start time  *)
(* lies outside the years 1..9999, DateTime::fmt returns an error and the  *)
(* unwrap of line 214 panics, so the event yields no record.               *)
(***************************************************************************)
C6_MissingFieldsStillYieldRecord ==
    \A i \in 1..NumListed :
        ( /\ svcEvents[i].arn = None \/ svcEvents[i].start_time = None
          /\ pc = "done"
          /\ Len(replies) >= 2 * i + 1
          /\ \A k \in 1..(2 * i + 1) : replies[k] = "ok" ) =>
            /\ Len(events) >= i
            /\ events[i].arn = ExpectedKey(i)
            /\ events[i].timestamp = ExpectedTimestamp(i)

(***************************************************************************)
(* C3.  The calls sent are a prefix of: DescribeEvents, then for each      *)
(* listed event in listing order DescribeEventDetails and                  *)
(* DescribeAffectedEntities for that event.  A call is sent only when      *)
(* every earlier call has been answered, so at most one is in flight, and  *)
(* a run that ends normally over n events has sent 1 + 2n calls.           *)
(***************************************************************************)
C3_CallsSequentialPrefix ==
    /\ Len(calls) <= 1 + 2 * NumListed
    /\ \A k \in 1..Len(calls) :
           /\ calls[k].op = ExpectedOp(k)
           /\ k > 1 => calls[k].event_arns = <<ExpectedKey(k \div 2)>>
    /\ Cardinality(inflight) <= 1
    /\ Len(calls) - Len(replies) = Cardinality(inflight)
    /\ inflight # {} => inflight = {Last(calls)}
    /\ exit = "ok" => Len(calls) = 1 + 2 * NumListed /\ AllRepliesOk

\* A normal end after two events with different keys, five calls sent.
C3_Witness ==
    /\ exit = "ok"
    /\ NumListed = 2
    /\ Len(calls) = 5
    /\ calls[2].event_arns # calls[4].event_arns

(***************************************************************************)
(* C10.  The key of an event's two calls is the arn of its record; an      *)
(* event without an identifier is not skipped: both calls are sent with    *)
(* the key "N/A", which is also the record's arn.                          *)
(***************************************************************************)
C10_KeysAreRecordArn ==
    /\ \A i \in 1..Len(events) :
           /\ calls[2 * i].event_arns = <<events[i].arn>>
           /\ calls[2 * i + 1].event_arns = <<events[i].arn>>
           /\ svcEvents[i].arn = None => events[i].arn = "N/A"
           /\ svcEvents[i].arn # None => events[i].arn = Val(svcEvents[i].arn)
    /\ \A k \in 2..Len(calls) :
           svcEvents[k \div 2].arn = None => calls[k].event_arns = <<"N/A">>
    /\ arn # None => \A k \in (2 * idx)..Len(calls) : calls[k].event_arns = <<Val(arn)>>
    /\ exit = "ok" => Len(events) = NumListed

\* A record with arn "N/A" whose two calls were sent.
C10_Witness ==
    /\ Len(events) >= 1
    /\ svcEvents[1].arn = None
    /\ calls[2] = [op |-> "DescribeEventDetails", event_arns |-> <<"N/A">>]
    /\ calls[3] = [op |-> "DescribeAffectedEntities", event_arns |-> <<"N/A">>]

(***************************************************************************)
(* The same statement as C2 for listings whose start times all format.     *)
(***************************************************************************)
C2_HoldsWhenStartTimesFormat ==
    (\A i \in 1..NumListed : StartTimeFormats(i)) => C2_EveryListedEventEmittedOnce

(***************************************************************************)
(* C4.  Each date flag resolves on its own.  A flag that parses as a       *)
(* calendar date gives midnight UTC of that date (a whole number of days   *)
(* whose calendar date is the one written); any other text gives the       *)
(* default (`now` for the end, `now` minus ten days for the start) and     *)
(* one warning naming the text; an absent flag gives the default without   *)
(* warning.  The run is still going after both flags, and with no flag     *)
(* the window is ten days long and ends at `now`.                          *)
(***************************************************************************)
CalendarDateOf(text) ==
    CASE text = <<"2", "0", "2", "4", "-", "0", "1", "-", "0", "5">> ->
             Some([year |-> 2024, month |-> 1, day |-> 5])
      [] text = <<"2", "0", "2", "4", "-", "0", "2", "-", "2", "9">> ->
             Some([year |-> 2024, month |-> 2, day |-> 29])
      [] text = <<"2", "0", "2", "4", "-", "1", "-", "5">> ->
             Some([year |-> 2024, month |-> 1, day |-> 5])
      [] OTHER -> None

IsDateText(flag) == flag # None /\ CalendarDateOf(Val(flag)) # None

IsBadText(flag) == flag # None /\ CalendarDateOf(Val(flag)) = None

ResolvesTo(flag, default, bound) ==
    IF IsDateText(flag)
    THEN /\ bound # None
         /\ Val(bound) % 86400 = 0
         /\ CivilFromDays(Val(bound) \div 86400) = Val(CalendarDateOf(Val(flag)))
    ELSE bound = Some(default)

WarningsFor(flags) ==
    LET bad == SelectSeq(flags, IsBadText)
    IN  [k \in 1..Len(bad) |-> [kind |-> "warning", date |-> Val(bad[k])]]

C4_DateFlagsResolve ==
    /\ pc \in {"parse_from", "parse_to", "region"} => exit = "running"
    /\ pc = "parse_from" => start_date = None /\ stderr = <<>>
    /\ pc = "parse_to" => end_date = None /\ stderr = WarningsFor(<<args.from_utc>>)
    /\ pc # "parse_from" => ResolvesTo(args.from_utc, now - 10 * 86400, start_date)
    /\ pc \notin {"parse_from", "parse_to"} =>
           /\ ResolvesTo(args.to_utc, now, end_date)
           /\ stderr = WarningsFor(<<args.from_utc, args.to_utc>>)
    /\ (pc \notin {"parse_from", "parse_to"} /\ args.from_utc = None /\ args.to_utc = None) =>
           /\ end_date = Some(now)
           /\ Val(end_date) - Val(start_date) = 10 * 86400

\* A run that ends normally with an unparsable start flag and a parsed end.
C4_Witness ==
    /\ exit = "ok"
    /\ args.from_utc = Some(<<"n", "o", "t", "-", "a", "-", "d", "a", "t", "e">>)
    /\ args.to_utc = Some(<<"2", "0", "2", "4", "-", "0", "2", "-", "2", "9">>)
    /\ start_date = Some(now - 10 * 86400)
    /\ end_date = Some(19782 * 86400)
    /\ Len(stderr) = 1

(***************************************************************************)
(* C8.  With --region given, the list call's filter carries that string    *)
(* as its only region.  Without it and without a default region the run    *)
(* ends in a panic at the region step: no region is made up and no call    *)
(* is ever sent.                                                           *)
(***************************************************************************)
C8_RegionVerbatimOrFatal ==
    /\ (args.region # None /\ calls # <<>>) => calls[1].regions = <<Val(args.region)>>
    /\ (args.region # None /\ target_region # None) => target_region = args.region
    /\ (args.region = None /\ envRegion = None) =>
           /\ calls = <<>>
           /\ target_region = None
           /\ pc \in {"parse_from", "parse_to", "region", "done"}
           /\ pc = "done" => exit = "panic"

\* The run has ended at the region step.
C8_Witness ==
    /\ args.region = None /\ envRegion = None
    /\ pc = "done" /\ exit = "panic"
    /\ calls = <<>>

(***************************************************************************)
(* C9.  Start-up order: the banner is printed only with window and region  *)
(* resolved; the csv is created (or truncated) only after the banner; the  *)
(* list call is sent only after the file is created and the header         *)
(* written.  So a run that fails at the region step leaves the file as it  *)
(* was, and a run that fails at a remote call leaves a csv holding the     *)
(* header alone.                                                           *)
(***************************************************************************)
IsBanner(item) == item.kind = "banner"

BannerPrinted == stdout # <<>> /\ IsBanner(stdout[1])

FileTouched == file \notin {None, Some(OldFile)}

C9_StartupOrder ==
    /\ stdout # <<>> =>
           /\ BannerPrinted
           /\ start_date # None /\ end_date # None /\ target_region # None
    /\ (FileTouched \/ writer # None) => BannerPrinted
    /\ writer # None => file = Some(<<>>)
    /\ calls # <<>> =>
           /\ FileTouched
           /\ exit = "running" =>
                  /\ file = Some(<<>>)
                  /\ writer # None
                  /\ Len(Val(writer)) >= 1
                  /\ Val(writer)[1] = Header
    /\ (exit = "panic" /\ target_region = None) =>
           /\ ~FileTouched
           /\ writer = None
           /\ stdout = <<>>
           /\ calls = <<>>
    /\ exit = "error" => file = Some(<<Header>>) /\ writer = None

\* The list call failed: the csv holds the header alone.
C9_Witness ==
    /\ exit = "error"
    /\ Len(replies) = 1
    /\ BannerPrinted
    /\ file = Some(<<Header>>)

(***************************************************************************)
(* C5.  A record's detail is the latest description of the first entry of  *)
(* the event's successful set, and "No description available" when the     *)
(* set is empty or its first entry has no description, whatever later      *)
(* entries hold.  Picking the detail never ends the run: the run is at     *)
(* the next statement with that detail.                                    *)
(***************************************************************************)
C5_DetailIsFirstEntry ==
    /\ \A i \in 1..Len(events) : events[i].detail = ExpectedDetail(svcDetails[i])
    /\ pc \in {"timestamp", "push"} =>
           /\ exit = "running"
           /\ detail = Some(ExpectedDetail(svcDetails[idx]))
    /\ pc = "detail" => ENABLED PickDetail

\* A record with the placeholder although the second entry has a description.
C5_Witness ==
    /\ Len(events) = 1
    /\ Len(svcDetails[1]) = 2
    /\ ~HasText(svcDetails[1][1])
    /\ HasText(svcDetails[1][2])
    /\ events[1].detail = "No description available"
    /\ exit = "ok"

(***************************************************************************)
(* C7.  A record's affected entities are the present values of the         *)
(* returned entities, in return order, absent values skipped and           *)
(* duplicates kept; the csv cell is that list joined with ", ", empty for  *)
(* an event without present values.  Collecting the list never ends the    *)
(* run.                                                                    *)
(***************************************************************************)
C7_EntitiesInOrderAndJoined ==
    /\ \A i \in 1..Len(events) :
           events[i].affected_entities = PresentValues(svcEntities[i])
    /\ pc \in {"detail", "timestamp", "push"} =>
           /\ exit = "running"
           /\ entity_list = Some(PresentValues(svcEntities[idx]))
    /\ pc = "collect" => ENABLED CollectEntities
    /\ writer # None =>
           \A i \in 1..emitted :
               Val(writer)[i + 1][4] = ExpectedCell(PresentValues(svcEntities[i]))
    /\ exit = "ok" =>
           /\ Len(Val(file)) = 1 + NumListed
           /\ \A i \in 1..NumListed :
                  /\ Val(file)[i + 1][4] = ExpectedCell(PresentValues(svcEntities[i]))
                  /\ PresentValues(svcEntities[i]) = <<>> => Val(file)[i + 1][4] = ""

\* An absent value between two present ones is skipped and the cell joins
\* the two that remain.
C7_Witness ==
    /\ exit = "ok"
    /\ NumListed = 1
    /\ svcEntities[1] = <<[entity_value |-> Some("res-2")], [entity_value |-> None]>>
    /\ Val(file)[2][4] = "res-2"

====
